---------------------------- MODULE Spec2Model ----------------------------
(***************************************************************************)
(* A model of rusty-dee-dee: the command dispatcher (do_main), the block   *)
(* copy command (do_dd), the Windows device listing (do_list_windows,      *)
(* get_windows_disks, enumerate_object_path, get_disk_size) and the        *)
(* UNICODE_STRING holder (UnicodeStringHolder).                            *)
(*                                                                         *)
(* The program only builds for Windows (main.rs uses share_mode and        *)
(* do_list_windows unconditionally), so cfg!(target_os = "windows") is     *)
(* true everywhere.  The console streams (print!, println!, eprintln!)     *)
(* are taken to accept every line; what is printed on stdout is recorded.  *)
(*                                                                         *)
(* Text is a sequence of Unicode scalar values, a wide-character buffer a  *)
(* sequence of 16-bit code units, a file a sequence of bytes.              *)
(***************************************************************************)
EXTENDS Integers, Sequences, FiniteSets, TLC

(***************************************************************************)
(* Bounds of the model.                                                    *)
(***************************************************************************)
\* longest source file, in bytes
MaxSrcLen == 3
\* largest --src-skip / --dest-skip value given on the command line
MaxSkip == 1
\* largest finite --count value given on the command line
MaxCount == 4
\* largest --block-size value given on the command line
MaxBlock == 2
\* most entries the kernel shows in one run, over all the directories walked
MaxEntries == 4
\* largest absolute value of the length a disk driver reports
MaxDiskLen == 2
\* longest of the short texts given to UnicodeStringHolder, in chars
MaxTextLen == 2
\* largest number of spare units, short of doubling, a Vec is given
MaxSlack == 1

(***************************************************************************)
(* Program constants.                                                      *)
(***************************************************************************)
\* u64::max_value(), the default of --count.  TLC's integers are 32 bits
\* wide, so the largest of them stands for it; no arithmetic of do_dd can
\* exceed it (remaining_bytes only decreases).
U64Max == 2147483647
\* 4*1024*1024, the default of --block-size
DefaultBlockSize == 4194304

Min(a, b) == IF a < b THEN a ELSE b
Max(a, b) == IF a > b THEN a ELSE b

(***************************************************************************)
(* Command line.  An option that takes a number is absent, present with a  *)
(* text that parses as a number, or present with a text that does not.     *)
(***************************************************************************)
OptAbsent == [present |-> FALSE, valid |-> TRUE, val |-> 0]
OptBad == [present |-> TRUE, valid |-> FALSE, val |-> 0]
OptNum(n) == [present |-> TRUE, valid |-> TRUE, val |-> n]

\* a text that does not parse is taken for the default
GetArgNum_Lenient(opt, default) ==
    IF opt.present /\ opt.valid THEN [ok |-> TRUE, val |-> opt.val]
    ELSE [ok |-> TRUE, val |-> default]
\* get_arg_num: the default when the option is absent, else T::from_str.
GetArgNum(opt, default) ==
    IF ~opt.present THEN [ok |-> TRUE, val |-> default]
    ELSE IF opt.valid THEN [ok |-> TRUE, val |-> opt.val]
    ELSE [ok |-> FALSE, val |-> 0]

\* argv of a well-formed `dd` call: every option parses, two free arguments.
DdArgv(s, S, c, b, C, t) ==
    [cmd |-> "dd", nargs |-> 4, parse_ok |-> TRUE, nfree |-> 2,
     s |-> s, S |-> S, c |-> c, b |-> b, C |-> C, t |-> t]

PlainArgv(cmd, nargs) ==
    [cmd |-> cmd, nargs |-> nargs, parse_ok |-> TRUE, nfree |-> 2,
     s |-> OptAbsent, S |-> OptAbsent, c |-> OptAbsent, b |-> OptAbsent,
     C |-> FALSE, t |-> FALSE]

SkipOpts == {OptAbsent} \cup {OptNum(n) : n \in 1..MaxSkip}
CountOpts == {OptAbsent} \cup {OptNum(n) : n \in 0..MaxCount}
BlockOpts == {OptAbsent} \cup {OptNum(n) : n \in 1..MaxBlock}

ValidDdArgvs ==
    {DdArgv(s, S, c, b, C, t) :
        s \in SkipOpts, S \in SkipOpts, c \in CountOpts, b \in BlockOpts,
        C \in BOOLEAN, t \in BOOLEAN}

\* dd calls that do_dd rejects: one fault each.
InvalidDdArgvs ==
    {[DdArgv(OptAbsent, OptAbsent, OptAbsent, OptAbsent, C, t)
        EXCEPT !.parse_ok = FALSE] : C \in BOOLEAN, t \in BOOLEAN}
    \cup {[DdArgv(OptAbsent, OptAbsent, OptAbsent, OptAbsent, C, t)
        EXCEPT !.nfree = n] : n \in {1, 3}, C \in BOOLEAN, t \in BOOLEAN}
    \cup {DdArgv(OptBad, OptAbsent, OptAbsent, OptAbsent, C, t) :
        C \in BOOLEAN, t \in BOOLEAN}
    \cup {DdArgv(OptAbsent, OptBad, OptAbsent, OptAbsent, C, t) :
        C \in BOOLEAN, t \in BOOLEAN}
    \cup {DdArgv(OptAbsent, OptAbsent, OptBad, OptAbsent, C, t) :
        C \in BOOLEAN, t \in BOOLEAN}
    \cup {DdArgv(OptAbsent, OptAbsent, OptAbsent, OptBad, C, t) :
        C \in BOOLEAN, t \in BOOLEAN}
    \cup {DdArgv(OptAbsent, OptAbsent, OptAbsent, OptNum(0), C, t) :
        C \in BOOLEAN, t \in BOOLEAN}

\* nargs is args.len(): the program name, the command, what follows it.
OtherArgvs ==
    {PlainArgv("", 1), PlainArgv("--help", 2), PlainArgv("bogus", 2)}
    \cup {PlainArgv("list", n) : n \in {2, 3}}

Argvs == ValidDdArgvs \cup InvalidDdArgvs \cup OtherArgvs

NoJob ==
    [source_skip |-> 0, dest_skip |-> 0, count |-> 0, block_size |-> 0,
     allow_create_dest |-> FALSE, truncate_dest |-> FALSE]

(***************************************************************************)
(* Files.                                                                  *)
(***************************************************************************)
\* The source file: the bytes 1, 2, .., n.  do_dd never inspects a byte, so
\* bytes that name their own offset show every misplaced, repeated or lost
\* byte.
SourceFiles == {[i \in 1..n |-> i] : n \in 0..MaxSrcLen}

\* What the destination holds before the run, when it exists.
OldDest == <<9, 9>>

\* first n elements of s, padded with zeroes: &buf[0..n] of a buffer whose
\* bytes past Len(s) are still the zeroes of vec![0u8; block_size]
Take(s, n) == [i \in 1..n |-> IF i <= Len(s) THEN s[i] ELSE 0]

\* the file f after `data` is written at offset pos (a gap past the end of
\* the file reads as zeroes)
WriteAt(f, pos, data) ==
    [i \in 1..Max(Len(f), pos + Len(data)) |->
        IF i > pos /\ i <= pos + Len(data) THEN data[i - pos]
        ELSE IF i <= Len(f) THEN f[i]
        ELSE 0]

\* the read stores its bytes after those of the reads before it
ReadInto_Append(b, data) == b \o data
\* the buffer after a read stored `data` at its start
ReadInto(b, data) ==
    [i \in 1..Max(Len(b), Len(data)) |->
        IF i <= Len(data) THEN data[i] ELSE b[i]]

\* bytes of file f available at offset pos
Avail(f, pos) == Max(0, Len(f) - pos)

\* Outcomes of source_file.read(&mut buf[0..n]) with n >= 1: -1 is Err,
\* otherwise the number of bytes read: 0 at the end of the file, else
\* between 1 and n.
ReadResults(f, pos, n) ==
    {-1} \cup (IF Avail(f, pos) = 0 THEN {0} ELSE 1..Min(n, Avail(f, pos)))

\* Outcomes of dest_file.write(&buf[0..k]): -1 is Err, else the count.
WriteResults(k) == {-1} \cup (0..k)

(***************************************************************************)
(* Text and UTF-16.                                                        *)
(***************************************************************************)
\* std::u16::MAX
U16Max == 65535
\* size_of::<u16>()
SizeOfU16 == 2

IsHighSurrogate(u) == u >= 55296 /\ u <= 56319
IsLowSurrogate(u) == u >= 56320 /\ u <= 57343
IsSurrogate(u) == IsHighSurrogate(u) \/ IsLowSurrogate(u)

\* char::encode_utf16: one unit in the basic plane, else a surrogate pair
EncodeChar(c) ==
    IF c < 65536 THEN <<c>>
    ELSE <<55296 + ((c - 65536) \div 1024), 56320 + ((c - 65536) % 1024)>>

DecodePair(hi, lo) == 65536 + (hi - 55296) * 1024 + (lo - 56320)

\* str::encode_utf16().collect(): the units of every char, in order.  The
\* text is split in halves so that long texts do not nest deeply.
RECURSIVE EncodeUtf16(_)
EncodeUtf16(s) ==
    IF Len(s) = 0 THEN <<>>
    ELSE IF Len(s) = 1 THEN EncodeChar(s[1])
    ELSE LET m == Len(s) \div 2
         IN EncodeUtf16(SubSeq(s, 1, m)) \o EncodeUtf16(SubSeq(s, m + 1, Len(s)))

\* String::from_utf16: a unit outside the surrogate range is a char, a
\* high surrogate followed by a low one is a char, every other surrogate
\* is an error.  A high surrogate directly followed by a low one is always
\* a pair, so the buffer is split in halves anywhere but inside a pair.
\* A buffer without surrogates decodes unit by unit, each unit to the char
\* of the same number.
RECURSIVE FromUtf16(_)
FromUtf16(u) ==
    IF \A i \in 1..Len(u) : ~IsSurrogate(u[i]) THEN [ok |-> TRUE, val |-> u]
    ELSE IF Len(u) = 1 THEN
        IF IsSurrogate(u[1]) THEN [ok |-> FALSE, val |-> <<>>]
        ELSE [ok |-> TRUE, val |-> <<u[1]>>]
    ELSE IF Len(u) = 2 /\ IsHighSurrogate(u[1]) /\ IsLowSurrogate(u[2]) THEN
        [ok |-> TRUE, val |-> <<DecodePair(u[1], u[2])>>]
    ELSE LET m == Len(u) \div 2
             k == IF IsHighSurrogate(u[m]) /\ IsLowSurrogate(u[m + 1])
                  THEN m + 1 ELSE m
             l == FromUtf16(SubSeq(u, 1, k))
             r == FromUtf16(SubSeq(u, k + 1, Len(u)))
         IN IF l.ok /\ r.ok THEN [ok |-> TRUE, val |-> l.val \o r.val]
            ELSE [ok |-> FALSE, val |-> <<>>]

\* str::starts_with
StartsWith(s, p) == Len(s) >= Len(p) /\ SubSeq(s, 1, Len(p)) = p

\* "\Device"
DevicePath == <<92, 68, 101, 118, 105, 99, 101>>
\* "\Device\"
DevicePrefix == <<92, 68, 101, 118, 105, 99, 101, 92>>
\* "\\?\GLOBALROOT\Device\"
GlobalRootPrefix ==
    <<92, 92, 63, 92, 71, 76, 79, 66, 65, 76, 82, 79, 79, 84, 92,
      68, 101, 118, 105, 99, 101, 92>>
\* "\"
Backslash == <<92>>
\* "Harddisk"
Harddisk == <<72, 97, 114, 100, 100, 105, 115, 107>>
\* "Partition"
Partition == <<80, 97, 114, 116, 105, 116, 105, 111, 110>>
\* "Directory"
Directory == <<68, 105, 114, 101, 99, 116, 111, 114, 121>>

(***************************************************************************)
(* The kernel's object namespace, as NtQueryDirectoryObject shows it.      *)
(***************************************************************************)
\* "Harddisk0"
Harddisk0 == <<72, 97, 114, 100, 100, 105, 115, 107, 48>>
\* "Harddisk1"
Harddisk1 == <<72, 97, 114, 100, 100, 105, 115, 107, 49>>
\* "HarddiskVolume1"
HarddiskVolume1 ==
    <<72, 97, 114, 100, 100, 105, 115, 107, 86, 111, 108, 117, 109, 101, 49>>
\* "Floppy0"
Floppy0 == <<70, 108, 111, 112, 112, 121, 48>>
\* "Partition0"
Partition0 == <<80, 97, 114, 116, 105, 116, 105, 111, 110, 48>>
\* "Partition1"
Partition1 == <<80, 97, 114, 116, 105, 116, 105, 111, 110, 49>>
\* "DR0"
DR0 == <<68, 82, 48>>
\* "Device"
TypeDevice == <<68, 101, 118, 105, 99, 101>>
\* "SymbolicLink"
TypeSymbolicLink == <<83, 121, 109, 98, 111, 108, 105, 99, 76, 105, 110, 107>>
\* a lone high surrogate: no text encodes to it
BadUnits == <<55296>>

\* UNICODE_STRING as the kernel fills it in: Length in bytes, the units
UnicodeString(units) == [Length |-> Len(units) * SizeOfU16, Buffer |-> units]

\* OBJECT_DIRECTORY_INFORMATION
DirInfo(name_units, type_units) ==
    [Name |-> UnicodeString(name_units), TypeName |-> UnicodeString(type_units)]

\* the zeroed buffer of enumerate_object_path, read as a struct
ZeroedDirInfo == DirInfo(<<>>, <<>>)

\* what \Device may hold
RootPool ==
    {DirInfo(EncodeUtf16(Harddisk0), EncodeUtf16(Directory)),
     DirInfo(EncodeUtf16(Harddisk1), EncodeUtf16(Directory)),
     DirInfo(EncodeUtf16(HarddiskVolume1), EncodeUtf16(TypeDevice)),
     DirInfo(EncodeUtf16(Floppy0), EncodeUtf16(Directory)),
     DirInfo(BadUnits, EncodeUtf16(Directory))}

\* what \Device\HarddiskN may hold
PartPool ==
    {DirInfo(EncodeUtf16(Partition0), EncodeUtf16(TypeSymbolicLink)),
     DirInfo(EncodeUtf16(Partition1), EncodeUtf16(TypeSymbolicLink)),
     DirInfo(EncodeUtf16(DR0), EncodeUtf16(TypeDevice)),
     DirInfo(EncodeUtf16(Partition0), BadUnits)}

Pool(path) == IF path = DevicePath THEN RootPool ELSE PartPool

\* Outcomes of one NtQueryDirectoryObject call on the directory `path`, the
\* kernel having shown `shown` entries so far: the next entry, the end of the
\* directory, or an error.
QueryResults(path, shown) ==
    {[status |-> "STATUS_NO_MORE_ENTRIES", info |-> ZeroedDirInfo],
     [status |-> "STATUS_ACCESS_DENIED", info |-> ZeroedDirInfo]}
    \cup (IF shown < MaxEntries
          THEN {[status |-> "STATUS_SUCCESS", info |-> e] : e \in Pool(path)}
          ELSE {})

\* Outcomes of NtOpenDirectoryObject
OpenResults == {"STATUS_SUCCESS", "STATUS_ACCESS_DENIED"}

\* UnicodeStringHolder::new_from_unicode_string: the first Length / 2 units
NewFromUnicodeString(unistr) ==
    [backing |-> SubSeq(unistr.Buffer, 1, unistr.Length \div SizeOfU16)]

\* UnicodeStringHolder::try_as_string
TryAsString(holder) == FromUtf16(holder.backing)

(***************************************************************************)
(* get_disk_size                                                           *)
(***************************************************************************)
\* size_of::<GET_LENGTH_INFORMATION>()
LengthInfoSize == 8

\* length_info after DeviceIoControl: the buffer was zeroed, and the driver
\* stored its length when it reports a whole structure written.
LengthInfoAfter(bytes_returned, driver_length) ==
    IF bytes_returned = LengthInfoSize THEN driver_length ELSE 0

\* the length is cast to u64 without looking at its sign
GetDiskSize_Cast(result, bytes_returned, length) ==
    IF result = 0 THEN [ok |-> FALSE, val |-> 0, err |-> "last_os_error"]
    ELSE [ok |-> TRUE, err |-> "none",
          val |-> IF length < 0 THEN U64Max + (1 + length) ELSE length]
\* lines 268-279: what get_disk_size makes of DeviceIoControl's result
GetDiskSize(result, bytes_returned, length) ==
    IF result = 0 THEN [ok |-> FALSE, val |-> 0, err |-> "last_os_error"]
    ELSE IF length < 0 THEN [ok |-> FALSE, val |-> 0, err |-> "InvalidData"]
    ELSE [ok |-> TRUE, val |-> length, err |-> "none"]

NoQuery == [made |-> FALSE, result |-> 0, bytes_returned |-> 0, length |-> 0,
            ret |-> [ok |-> FALSE, val |-> 0, err |-> "none"]]

\* Outcomes of DeviceIoControl(IOCTL_DISK_GET_LENGTH_INFO): a failed call
\* returns nothing; a call that succeeds reports 0 or 8 bytes returned.
IoctlResults ==
    {[result |-> 0, bytes_returned |-> 0, driver_length |-> 0]}
    \cup {[result |-> 1, bytes_returned |-> 0, driver_length |-> 0]}
    \cup {[result |-> 1, bytes_returned |-> LengthInfoSize, driver_length |-> l] :
            l \in (0 - MaxDiskLen)..MaxDiskLen}

NoWalk == [path |-> <<>>, caller |-> "none", handle |-> "none", context |-> 0,
           ret |-> <<>>, ok |-> FALSE, closes |-> 0]
NoLine == [disk |-> <<>>, has_size |-> FALSE, size |-> 0]

(***************************************************************************)
(* UnicodeStringHolder                                                     *)
(*                                                                         *)
(* The state keeps the holder's text and buffer as runs, <<[c, n], ..>>    *)
(* for n times c, so that a text of 32768 chars is a short value; every    *)
(* operation works on the unpacked sequence.                               *)
(***************************************************************************)
Run(c, n) == [c |-> c, n |-> n]

RECURSIVE Unpack(_)
Unpack(runs) ==
    IF runs = <<>> THEN <<>>
    ELSE [i \in 1..Head(runs).n |-> Head(runs).c] \o Unpack(Tail(runs))

\* two packed sequences, one after the other
JoinRuns(l, r) ==
    IF l = <<>> THEN r
    ELSE IF r = <<>> THEN l
    ELSE IF l[Len(l)].c = r[1].c
    THEN SubSeq(l, 1, Len(l) - 1) \o <<Run(r[1].c, l[Len(l)].n + r[1].n)>>
         \o Tail(r)
    ELSE l \o r

RECURSIVE Pack(_)
Pack(s) ==
    IF Len(s) = 0 THEN <<>>
    ELSE IF Len(s) = 1 THEN <<Run(s[1], 1)>>
    ELSE LET m == Len(s) \div 2
         IN JoinRuns(Pack(SubSeq(s, 1, m)), Pack(SubSeq(s, m + 1, Len(s))))

NoHolder ==
    [pc |-> "none", text |-> <<>>, backing |-> <<>>, capacity |-> 0,
     Length |-> 0, MaximumLength |-> 0,
     decoded |-> [ok |-> FALSE, val |-> <<>>]]

\* lines 82-91: new_from_vec of a vector with the given capacity
NewFromVec(vec, capacity) ==
    LET byte_capacity == capacity * SizeOfU16
    IN IF byte_capacity > U16Max THEN [ok |-> FALSE, backing |-> <<>>]
       ELSE [ok |-> TRUE, backing |-> vec]

\* u16::try_from(usize)
TryIntoU16(n) == [ok |-> n <= U16Max, val |-> IF n <= U16Max THEN n ELSE 0]

\* The capacities Vec<u16> may have after collect() gathered len units: a
\* Vec only promises capacity >= len, and grows by doubling.
Capacities(len) ==
    {c \in len..Max(4, 2 * len) : c - len <= MaxSlack \/ c = Max(4, 2 * len)}

\* a few chars: 'a', the euro sign (three bytes of UTF-8, one unit of
\* UTF-16), a smiley outside the basic plane (two units)
Chars == {97, 8364, 128512}

RECURSIVE TextsUpTo(_)
TextsUpTo(n) ==
    IF n = 0 THEN {<<>>}
    ELSE LET shorter == TextsUpTo(n - 1)
         IN shorter \cup {Append(s, c) : s \in shorter, c \in Chars}

\* number of units whose bytes no longer fit the 16-bit length: 32768
UnitLimit == (U16Max + 1) \div SizeOfU16

\* texts of one repeated char (of one unit) whose encoded length is at the
\* limit and one unit under it
LongTexts ==
    {<<Run(c, n)>> : c \in {97, 8364}, n \in {UnitLimit - 1, UnitLimit}}

\* the texts given to new_from_string, packed
Texts == {Pack(s) : s \in TextsUpTo(MaxTextLen)} \cup LongTexts

\* stdout as do_dd finds it: working, its buffer empty
NoOut == [broken |-> FALSE, pending |-> 0]

\* Progress texts that fit in stdout's buffer before it must be written out.
\* The buffer of std's stdout holds 1024 bytes and a text "\r<n> bytes
\* remain" has 15 to 34; the model keeps the buffer and scales it down.
StdoutLines == 2

\* the exit code of a Rust program that panicked
PanicCode == 101

VARIABLES
    argv,            \* env::args(), abstracted
    pc,              \* position in the program
    exitCode,        \* value passed to exit(); -1 while running
    failure,         \* the operation that failed, "none" if none did
    job,             \* do_dd's parsed arguments
    src,             \* content of the source file
    srcPos,          \* file position of source_file
    dstExists,       \* whether the destination path exists
    dst,             \* content of the destination file
    dstPos,          \* file position of dest_file
    buf,             \* the initialised prefix of buf
    remaining_bytes, \* do_dd's remaining_bytes
    read_count,      \* do_dd's read_count of the current iteration
    ops,             \* the file operations issued so far, in order
    progress,        \* the "bytes remain" values printed so far
    out,             \* stdout: whether writing to it fails, and the progress
                     \* texts waiting in its buffer
    walk,            \* the running call of enumerate_object_path
    kops,            \* the kernel calls on directory objects so far, in order
    devs,            \* get_windows_disks' devs
    devIdx,          \* index in devs of the device being walked
    ret,             \* get_windows_disks' ret
    disks,           \* do_list_windows' disks
    diskIdx,         \* index in disks of the disk being printed
    printed,         \* number of disks printed on stdout
    lastLine,        \* the disk printed last, with its size if it has one
    lastQuery,       \* the last call of get_disk_size and what it returned
    us               \* a UnicodeStringHolder being built from text

ddVars == <<job, src, srcPos, dstExists, dst, dstPos, buf, remaining_bytes,
            read_count, ops, progress, out>>

listVars == <<walk, kops, devs, devIdx, ret, disks, diskIdx, printed,
              lastLine, lastQuery>>

vars == <<argv, pc, exitCode, failure, job, src, srcPos, dstExists, dst,
          dstPos, buf, remaining_bytes, read_count, ops, progress, out,
          walk, kops, devs, devIdx, ret, disks, diskIdx, printed,
          lastLine, lastQuery, us>>

Op(name, n, r) == [op |-> name, n |-> n, r |-> r, rem |-> remaining_bytes]

\* return <code> from do_main's callee: main passes it to exit().
Exit(code, why) ==
    /\ pc' = "exit"
    /\ exitCode' = code
    /\ failure' = why

\* Only the copy command touches the two files, so only its runs vary them.
Init ==
    /\ argv \in Argvs
    /\ pc = "main"
    /\ exitCode = -1
    /\ failure = "none"
    /\ job = NoJob
    /\ src \in (IF argv.cmd = "dd" THEN SourceFiles ELSE {<<>>})
    /\ srcPos = 0
    /\ dstExists \in (IF argv.cmd = "dd" THEN BOOLEAN ELSE {FALSE})
    /\ dst = IF dstExists THEN OldDest ELSE <<>>
    /\ dstPos = 0
    /\ buf = <<>>
    /\ remaining_bytes = 0
    /\ read_count = 0
    /\ ops = <<>>
    /\ progress = <<>>
    /\ out = NoOut
    /\ walk = NoWalk
    /\ kops = <<>>
    /\ devs = <<>>
    /\ devIdx = 0
    /\ ret = <<>>
    /\ disks = <<>>
    /\ diskIdx = 0
    /\ printed = 0
    /\ lastLine = NoLine
    /\ lastQuery = NoQuery
    /\ us = NoHolder

(***************************************************************************)
(* do_main                                                                 *)
(***************************************************************************)
DoMain ==
    /\ pc = "main"
    /\ IF argv.nargs = 1 THEN Exit(1, "usage")
       ELSE IF argv.cmd = "--help" THEN Exit(0, "none")
       ELSE IF argv.cmd = "list" THEN
            /\ pc' = "list_args"
            /\ UNCHANGED <<exitCode, failure>>
       ELSE IF argv.cmd = "dd" THEN
            /\ pc' = "dd_args"
            /\ UNCHANGED <<exitCode, failure>>
       ELSE Exit(1, "unknown_command")
    /\ UNCHANGED <<argv, listVars, us, ddVars>>

(***************************************************************************)
(* do_dd                                                                   *)
(***************************************************************************)
\* lines 92-158: the options are parsed and checked in the order
\* parse, free arguments, -s, -S, -c, -b
DdParseArgs ==
    /\ pc = "dd_args"
    /\ LET source_skip_res == GetArgNum(argv.s, 0)
           dest_skip_res == GetArgNum(argv.S, 0)
           count_res == GetArgNum(argv.c, U64Max)
           block_size_res == GetArgNum(argv.b, DefaultBlockSize)
       IN IF \/ ~argv.parse_ok
             \/ argv.nfree # 2
             \/ ~source_skip_res.ok
             \/ ~dest_skip_res.ok
             \/ ~count_res.ok
             \/ ~block_size_res.ok
             \/ block_size_res.val < 1
          THEN /\ Exit(1, "args")
               /\ UNCHANGED job
          ELSE /\ job' = [source_skip |-> source_skip_res.val,
                          dest_skip |-> dest_skip_res.val,
                          count |-> count_res.val,
                          block_size |-> block_size_res.val,
                          allow_create_dest |-> argv.C,
                          truncate_dest |-> argv.t]
               /\ pc' = "open_source"
               /\ UNCHANGED <<exitCode, failure>>
    /\ UNCHANGED <<argv, listVars, us, src, srcPos, dstExists, dst, dstPos, buf,
                   remaining_bytes, read_count, ops, progress, out>>

\* lines 160-174
DdOpenSource ==
    /\ pc = "open_source"
    /\ \E ok \in BOOLEAN :
        /\ ops' = Append(ops, Op("open_source", 0, IF ok THEN 0 ELSE -1))
        /\ IF ok
           THEN /\ pc' = "seek_source"
                /\ srcPos' = 0
                /\ UNCHANGED <<exitCode, failure>>
           ELSE /\ Exit(1, "open_source")
                /\ UNCHANGED srcPos
    /\ UNCHANGED <<argv, listVars, us, job, src, dstExists, dst, dstPos, buf,
                   remaining_bytes, read_count, progress, out>>

\* a seek is issued even to offset 0
SeekNeeded_Always(skip) == TRUE
\* lines 175 and 201: a stream is sought only to a nonzero offset
SeekNeeded(skip) == skip > 0

\* lines 175-181
DdSeekSource ==
    /\ pc = "seek_source"
    /\ IF SeekNeeded(job.source_skip)
       THEN \E ok \in BOOLEAN :
            /\ ops' = Append(ops, Op("seek_source", job.source_skip,
                                     IF ok THEN 0 ELSE -1))
            /\ IF ok
               THEN /\ srcPos' = job.source_skip
                    /\ pc' = "open_dest"
                    /\ UNCHANGED <<exitCode, failure>>
               ELSE /\ Exit(1, "seek_source")
                    /\ UNCHANGED srcPos
       ELSE /\ pc' = "open_dest"
            /\ UNCHANGED <<exitCode, failure, srcPos, ops>>
    /\ UNCHANGED <<argv, listVars, us, job, src, dstExists, dst, dstPos, buf,
                   remaining_bytes, read_count, progress, out>>

\* a missing destination is created whether or not -C was given
DestOpenable_Always(exists, create) == TRUE
\* Whether OpenOptions::open of the destination can succeed at all: a
\* missing file is only created when .create(true) was asked for.
DestOpenable(exists, create) == exists \/ create

\* lines 183-200
DdOpenDest ==
    /\ pc = "open_dest"
    /\ \E ok \in {b \in BOOLEAN :
                    b => DestOpenable(dstExists, job.allow_create_dest)} :
        /\ ops' = Append(ops, Op("open_dest", 0, IF ok THEN 0 ELSE -1))
        /\ IF ok
           THEN /\ dstExists' = TRUE
                /\ dst' = IF job.truncate_dest THEN <<>> ELSE dst
                /\ dstPos' = 0
                /\ pc' = "seek_dest"
                /\ UNCHANGED <<exitCode, failure>>
           ELSE /\ Exit(1, "open_dest")
                /\ UNCHANGED <<dstExists, dst, dstPos>>
    /\ UNCHANGED <<argv, listVars, us, job, src, srcPos, buf, remaining_bytes, read_count,
                   progress, out>>

\* line 209, println!(): the line is written through to stdout, and the
\* macro panics when that fails; otherwise the loop's variables are set up
\* (lines 211-213)
EnterLoop ==
    IF out.broken
    THEN /\ Exit(PanicCode, "panic_stdout")
         /\ UNCHANGED remaining_bytes
    ELSE /\ pc' = "loop"
         /\ remaining_bytes' = job.count
         /\ UNCHANGED <<exitCode, failure>>

\* lines 201-213: the seek, the empty line, the loop's variables
DdSeekDest ==
    /\ pc = "seek_dest"
    /\ IF SeekNeeded(job.dest_skip)
       THEN \E ok \in BOOLEAN :
            /\ ops' = Append(ops, Op("seek_dest", job.dest_skip,
                                     IF ok THEN 0 ELSE -1))
            /\ IF ok
               THEN /\ dstPos' = job.dest_skip
                    /\ EnterLoop
               ELSE /\ Exit(1, "seek_dest")
                    /\ UNCHANGED <<dstPos, remaining_bytes>>
       ELSE /\ EnterLoop
            /\ UNCHANGED <<dstPos, ops>>
    /\ UNCHANGED <<argv, listVars, us, job, src, srcPos, dstExists, dst, buf, read_count,
                   progress, out>>

\* every read asks for one byte
CountToRead_One(remaining, block_size) == 1
\* every read asks for a whole block
CountToRead_Block(remaining, block_size) == block_size
\* lines 215-219
CountToRead(remaining, block_size) ==
    IF remaining > block_size THEN block_size ELSE remaining

\* the end of the source is never noticed
SourceExhausted_Never(count) == count < 0
\* line 233
SourceExhausted(count) == count = 0

\* the budget is never charged
Budget_Unchanged(remaining, count_to_read, count) == remaining
\* the budget is charged what was asked for, not what was read
Budget_Requested(remaining, count_to_read, count) == remaining - count_to_read
\* line 228: remaining_bytes -= read_count_u64
Budget(remaining, count_to_read, count) == remaining - count

\* line 230, print!: the text goes into stdout's buffer; when the buffer
\* is full it is written out first, and the macro panics if that fails
PrintProgress(o) ==
    IF o.pending < StdoutLines
    THEN [ok |-> TRUE, out |-> [o EXCEPT !.pending = o.pending + 1]]
    ELSE IF o.broken THEN [ok |-> FALSE, out |-> o]
    ELSE [ok |-> TRUE, out |-> [o EXCEPT !.pending = 1]]

\* line 231, let _ = stdout().flush(): a failed flush is ignored and leaves
\* the texts in the buffer
FlushStdout(o) == IF o.broken THEN o ELSE [o EXCEPT !.pending = 0]

\* lines 214-235: the loop test, the read, the budget, the progress line
\* and the end-of-file test
DdRead ==
    /\ pc = "loop"
    /\ remaining_bytes > 0
    /\ LET count_to_read == CountToRead(remaining_bytes, job.block_size)
       IN \E res \in ReadResults(src, srcPos, count_to_read) :
            /\ ops' = Append(ops, Op("read", count_to_read, res))
            /\ IF res = -1
               THEN /\ Exit(1, "read")
                    /\ UNCHANGED <<srcPos, buf, remaining_bytes, read_count,
                                   progress, out>>
               ELSE /\ buf' = ReadInto(buf, SubSeq(src, srcPos + 1, srcPos + res))
                    /\ srcPos' = srcPos + res
                    /\ read_count' = res
                    /\ remaining_bytes' = Budget(remaining_bytes, count_to_read, res)
                    /\ LET print_res == PrintProgress(out)
                       IN IF ~print_res.ok
                          THEN /\ Exit(PanicCode, "panic_stdout")
                               /\ out' = print_res.out
                               /\ UNCHANGED progress
                          ELSE /\ out' = FlushStdout(print_res.out)
                               /\ progress' = Append(progress, remaining_bytes')
                               /\ IF SourceExhausted(res)
                                  THEN Exit(0, "none")
                                  ELSE /\ pc' = "write"
                                       /\ UNCHANGED <<exitCode, failure>>
    /\ UNCHANGED <<argv, listVars, us, job, src, dstExists, dst, dstPos>>

\* a short write is only refused when nothing at all was written
ShortWrite_ZeroOnly(write_count, count) == write_count = 0 /\ count # 0
\* line 243
ShortWrite(write_count, count) == write_count # count

\* the last `count` bytes of the buffer are written, not the first
BufSlice_Tail(b, count) == SubSeq(b, Len(b) - count + 1, Len(b))
\* line 237: &buf[0..read_count]
BufSlice(b, count) == Take(b, count)

\* lines 237-247
DdWrite ==
    /\ pc = "write"
    /\ \E res \in WriteResults(read_count) :
        /\ ops' = Append(ops, Op("write", read_count, res))
        /\ IF res = -1
           THEN /\ Exit(1, "write")
                /\ UNCHANGED <<dst, dstPos>>
           ELSE /\ dst' = WriteAt(dst, dstPos, Take(BufSlice(buf, read_count), res))
                /\ dstPos' = dstPos + res
                /\ IF ShortWrite(res, read_count)
                   THEN Exit(1, "short_write")
                   ELSE /\ pc' = "loop"
                        /\ UNCHANGED <<exitCode, failure>>
    /\ UNCHANGED <<argv, listVars, us, job, src, srcPos, dstExists, buf, remaining_bytes,
                   read_count, progress, out>>

\* lines 214, 249: the loop test fails and do_dd returns 0
DdLoopEnd ==
    /\ pc = "loop"
    /\ remaining_bytes = 0
    /\ Exit(0, "none")
    /\ UNCHANGED <<argv, listVars, us, ddVars>>

(***************************************************************************)
(* enumerate_object_path                                                   *)
(***************************************************************************)
KOp(call, w, status) ==
    [call |-> call, path |-> w.path, handle |-> w.handle, status |-> status,
     return_single_entry |-> FALSE, restart_scan |-> FALSE,
     context |-> w.context, info |-> ZeroedDirInfo]

\* lines 190-200: the call of NtQueryDirectoryObject with its arguments
\* RETURN_SINGLE_ENTRY, DONT_RESTART_SCAN and &mut context, and what the
\* kernel stored in buf
KQuery(w, r) ==
    [KOp("query", w, r.status) EXCEPT !.return_single_entry = TRUE,
                                      !.restart_scan = FALSE,
                                      !.info = r.info]

\* where enumerate_object_path returns to
ReturnPc(w) == IF w.caller = "root" THEN "gwd_after_root" ELSE "gwd_after_dev"

\* a call of enumerate_object_path(path) begins
StartWalk(path, caller) == [NoWalk EXCEPT !.path = path, !.caller = caller]

\* the handle is forgotten instead of closed
DropHandle_Leak(w) == w
\* lines 134-143: dir_handle goes out of scope and Drop calls NtClose
DropHandle(w) == [w EXCEPT !.handle = "closed", !.closes = w.closes + 1]

\* the NtClose calls that turned walk w into walk w2
CloseOps(w, w2) ==
    IF w2.closes > w.closes THEN <<KOp("close", w, "STATUS_SUCCESS")>> ELSE <<>>

IsEntry(kop) == kop.call = "query" /\ kop.status = "STATUS_SUCCESS"
\* number of entries the kernel has shown so far
EntriesShown(log) == Len(SelectSeq(log, IsEntry))

\* lines 159-181
EnumOpen ==
    /\ pc = "enum_open"
    /\ \E status \in OpenResults :
        /\ kops' = Append(kops, KOp("open", walk, status))
        /\ IF status # "STATUS_SUCCESS"
           THEN /\ walk' = [walk EXCEPT !.ok = FALSE]
                /\ pc' = ReturnPc(walk)
           ELSE /\ walk' = [walk EXCEPT !.handle = "open", !.context = 0,
                                        !.ret = <<>>]
                /\ pc' = "enum_query"
    /\ UNCHANGED <<argv, exitCode, failure, ddVars, us, devs, devIdx, ret,
                   disks, diskIdx, printed, lastLine, lastQuery>>

\* an entry whose type does not decode is kept, its type left empty
DecodeEntry_NameOnly(info) ==
    LET name_res == TryAsString(NewFromUnicodeString(info.Name))
        type_name_res == TryAsString(NewFromUnicodeString(info.TypeName))
    IN IF ~name_res.ok THEN <<>>
       ELSE <<[name |-> name_res.val, type_name |-> type_name_res.val]>>
\* lines 207-223: the entry read from the buffer, decoded, or its absence
DecodeEntry(info) ==
    LET name_res == TryAsString(NewFromUnicodeString(info.Name))
        type_name_res == TryAsString(NewFromUnicodeString(info.TypeName))
    IN IF ~name_res.ok \/ ~type_name_res.ok THEN <<>>
       ELSE <<[name |-> name_res.val, type_name |-> type_name_res.val]>>

\* lines 189-226: one turn of the loop, with the return that ends it
EnumQuery ==
    /\ pc = "enum_query"
    /\ \E r \in QueryResults(walk.path, EntriesShown(kops)) :
        LET queried == Append(kops, KQuery(walk, r))
        IN IF r.status = "STATUS_NO_MORE_ENTRIES"
           THEN /\ walk' = DropHandle([walk EXCEPT !.ok = TRUE])
                /\ kops' = queried \o CloseOps(walk, walk')
                /\ pc' = ReturnPc(walk)
           ELSE IF r.status # "STATUS_SUCCESS"
           THEN /\ walk' = DropHandle([walk EXCEPT !.ok = FALSE, !.ret = <<>>])
                /\ kops' = queried \o CloseOps(walk, walk')
                /\ pc' = ReturnPc(walk)
           ELSE /\ walk' = [walk EXCEPT !.context = walk.context + 1,
                                        !.ret = walk.ret \o DecodeEntry(r.info)]
                /\ kops' = queried
                /\ pc' = "enum_query"
    /\ UNCHANGED <<argv, exitCode, failure, ddVars, us, devs, devIdx, ret,
                   disks, diskIdx, printed, lastLine, lastQuery>>

(***************************************************************************)
(* get_windows_disks and do_list_windows                                   *)
(***************************************************************************)
\* every entry named Harddisk... is retained, whatever its type
RetainDev_NameOnly(dev) == StartsWith(dev.name, Harddisk)
\* line 234
RetainDev(dev) == dev.type_name = Directory /\ StartsWith(dev.name, Harddisk)
\* line 239
RetainPart(pt) == StartsWith(pt.name, Partition)
\* line 236
DevPath(dev) == DevicePrefix \o dev.name
\* line 241
PartPath(dev, partition) ==
    GlobalRootPrefix \o dev.name \o Backslash \o partition.name

\* a failed walk is taken for an empty directory
WalkFailed_Ignored(w) == FALSE
\* the `?` of lines 233 and 238
WalkFailed(w) == ~w.ok

\* main.rs lines 41-46, winvol.rs lines 231-233
ListArgs ==
    /\ pc = "list_args"
    /\ IF argv.nargs # 2
       THEN /\ Exit(1, "args")
            /\ UNCHANGED <<walk, ret>>
       ELSE /\ ret' = <<>>
            /\ walk' = StartWalk(DevicePath, "root")
            /\ pc' = "enum_open"
            /\ UNCHANGED <<exitCode, failure>>
    /\ UNCHANGED <<argv, ddVars, us, kops, devs, devIdx, disks, diskIdx,
                   printed, lastLine, lastQuery>>

\* winvol.rs lines 233-235; on Err main.rs lines 47-50
GwdAfterRoot ==
    /\ pc = "gwd_after_root"
    /\ IF WalkFailed(walk)
       THEN /\ Exit(1, "enumeration")
            /\ UNCHANGED <<devs, devIdx>>
       ELSE /\ devs' = SelectSeq(walk.ret, RetainDev)
            /\ devIdx' = 1
            /\ pc' = "gwd_next_dev"
            /\ UNCHANGED <<exitCode, failure>>
    /\ UNCHANGED <<argv, ddVars, us, walk, kops, ret, disks, diskIdx,
                   printed, lastLine, lastQuery>>

\* winvol.rs lines 235-238, and 246 with main.rs line 51 after the last device
GwdNextDev ==
    /\ pc = "gwd_next_dev"
    /\ IF devIdx <= Len(devs)
       THEN /\ walk' = StartWalk(DevPath(devs[devIdx]), "dev")
            /\ pc' = "enum_open"
            /\ UNCHANGED <<disks, diskIdx>>
       ELSE /\ disks' = ret
            /\ diskIdx' = 1
            /\ pc' = "list_disk"
            /\ UNCHANGED walk
    /\ UNCHANGED <<argv, exitCode, failure, ddVars, us, kops, devs, devIdx,
                   ret, printed, lastLine, lastQuery>>

\* winvol.rs lines 238-244; on Err main.rs lines 47-50
GwdAfterDev ==
    /\ pc = "gwd_after_dev"
    /\ IF WalkFailed(walk)
       THEN /\ Exit(1, "enumeration")
            /\ UNCHANGED <<ret, devIdx>>
       ELSE /\ LET partitions == SelectSeq(walk.ret, RetainPart)
               IN ret' = ret \o [i \in 1..Len(partitions) |->
                                    PartPath(devs[devIdx], partitions[i])]
            /\ devIdx' = devIdx + 1
            /\ pc' = "gwd_next_dev"
            /\ UNCHANGED <<exitCode, failure>>
    /\ UNCHANGED <<argv, ddVars, us, walk, kops, devs, disks, diskIdx,
                   printed, lastLine, lastQuery>>

\* the first failure of the run stays on record
Note(why) == IF failure = "none" THEN why ELSE failure

\* main.rs lines 53-78: one disk is opened, asked for its size and printed
ListDisk ==
    /\ pc = "list_disk"
    /\ diskIdx <= Len(disks)
    /\ \E opened \in BOOLEAN, io \in IoctlResults :
        LET length == LengthInfoAfter(io.bytes_returned, io.driver_length)
            size_res == GetDiskSize(io.result, io.bytes_returned, length)
        IN /\ lastQuery' =
                IF opened
                THEN [made |-> TRUE, result |-> io.result,
                      bytes_returned |-> io.bytes_returned,
                      length |-> length, ret |-> size_res]
                ELSE NoQuery
           /\ failure' = IF ~opened THEN Note("open_disk")
                         ELSE IF ~size_res.ok THEN Note("disk_size")
                         ELSE failure
           /\ lastLine' = [disk |-> disks[diskIdx],
                           has_size |-> opened /\ size_res.ok,
                           size |-> IF opened /\ size_res.ok
                                    THEN size_res.val ELSE 0]
    /\ printed' = printed + 1
    /\ diskIdx' = diskIdx + 1
    /\ UNCHANGED <<argv, pc, exitCode, ddVars, us, walk, kops, devs, devIdx,
                   ret, disks>>

\* main.rs line 80
ListDone ==
    /\ pc = "list_disk"
    /\ diskIdx > Len(disks)
    /\ pc' = "exit"
    /\ exitCode' = 0
    /\ UNCHANGED <<argv, failure, ddVars, us, listVars>>

(***************************************************************************)
(* UnicodeStringHolder: a holder is built from text, viewed as a           *)
(* UNICODE_STRING and decoded again.                                       *)
(***************************************************************************)
\* lines 98-101
UsNewFromString ==
    /\ us.pc = "start"
    /\ LET backing == EncodeUtf16(Unpack(us.text))
       IN \E capacity \in Capacities(Len(backing)) :
            LET r == NewFromVec(backing, capacity)
            IN us' = [us EXCEPT !.pc = IF r.ok THEN "held" ELSE "overflow",
                                !.backing = Pack(r.backing),
                                !.capacity = capacity]
    /\ UNCHANGED <<argv, pc, exitCode, failure, ddVars, listVars>>

\* lines 118-127; a failed try_into().unwrap() panics
UsAsUnicodeString ==
    /\ us.pc = "held"
    /\ LET byte_length == TryIntoU16(Len(Unpack(us.backing)) * SizeOfU16)
           byte_capacity == TryIntoU16(us.capacity * SizeOfU16)
       IN us' = [us EXCEPT
                    !.pc = IF byte_length.ok /\ byte_capacity.ok
                           THEN "viewed" ELSE "panic",
                    !.Length = byte_length.val,
                    !.MaximumLength = byte_capacity.val]
    /\ UNCHANGED <<argv, pc, exitCode, failure, ddVars, listVars>>

\* lines 129-131
UsTryAsString ==
    /\ us.pc = "viewed"
    /\ LET res == TryAsString([backing |-> Unpack(us.backing)])
       IN us' = [us EXCEPT !.pc = "decoded",
                           !.decoded = [ok |-> res.ok, val |-> Pack(res.val)]]
    /\ UNCHANGED <<argv, pc, exitCode, failure, ddVars, listVars>>

Next ==
    \/ DoMain
    \/ DdParseArgs
    \/ DdOpenSource
    \/ DdSeekSource
    \/ DdOpenDest
    \/ DdSeekDest
    \/ DdRead
    \/ DdWrite
    \/ DdLoopEnd
    \/ ListArgs
    \/ EnumOpen
    \/ EnumQuery
    \/ GwdAfterRoot
    \/ GwdNextDev
    \/ GwdAfterDev
    \/ ListDisk
    \/ ListDone

Spec == Init /\ [][Next]_vars

\* The reader of stdout goes away during a copy: from now on writing to
\* stdout fails.
StdoutBreaks ==
    /\ pc \in {"open_source", "seek_source", "open_dest", "seek_dest",
               "loop", "write"}
    /\ ~out.broken
    /\ out' = [out EXCEPT !.broken = TRUE]
    /\ UNCHANGED <<argv, pc, exitCode, failure, job, src, srcPos, dstExists,
                   dst, dstPos, buf, remaining_bytes, read_count, ops,
                   progress, listVars, us>>

NextOut ==
    \/ Next
    \/ StdoutBreaks

\* the program with a stdout that may fail
SpecOut == Init /\ [][NextOut]_vars

\* The holder on its own: a text is drawn, nothing else runs.
InitUs ==
    /\ argv = PlainArgv("", 1)
    /\ pc = "idle"
    /\ exitCode = -1
    /\ failure = "none"
    /\ job = NoJob
    /\ src = <<>>
    /\ srcPos = 0
    /\ dstExists = FALSE
    /\ dst = <<>>
    /\ dstPos = 0
    /\ buf = <<>>
    /\ remaining_bytes = 0
    /\ read_count = 0
    /\ ops = <<>>
    /\ progress = <<>>
    /\ out = NoOut
    /\ walk = NoWalk
    /\ kops = <<>>
    /\ devs = <<>>
    /\ devIdx = 0
    /\ ret = <<>>
    /\ disks = <<>>
    /\ diskIdx = 0
    /\ printed = 0
    /\ lastLine = NoLine
    /\ lastQuery = NoQuery
    /\ \E text \in Texts : us = [NoHolder EXCEPT !.pc = "start", !.text = text]

NextUs ==
    \/ UsNewFromString
    \/ UsAsUnicodeString
    \/ UsTryAsString

SpecUs == InitUs /\ [][NextUs]_vars


(***************************************************************************)
(* Properties of the copy command.                                         *)
(***************************************************************************)
\* do_dd accepted its arguments and went on to open the files
CopyJobRan == argv.cmd = "dd" /\ job.block_size >= 1

\* no open, seek, read or write returned Err and no write was short
NoIoError ==
    \A i \in 1..Len(ops) :
        /\ ops[i].r # -1
        /\ ops[i].op = "write" => ops[i].r = ops[i].n

RECURSIVE SumOf(_, _)
\* bytes moved by the operations named `name` in log
SumOf(log, name) ==
    IF log = <<>> THEN 0
    ELSE (IF Head(log).op = name /\ Head(log).r > 0 THEN Head(log).r ELSE 0)
         + SumOf(Tail(log), name)

BytesRead == SumOf(ops, "read")
BytesWritten == SumOf(ops, "write")

\* bytes the source holds from source_skip on
SourceLength == Avail(src, job.source_skip)

\* the first n bytes of the source from source_skip
SrcBytes(n) ==
    [i \in 1..n |-> IF job.source_skip + i <= Len(src)
                    THEN src[job.source_skip + i] ELSE -1]

\* the first n bytes of the destination from dest_skip
DstBytes(n) ==
    [i \in 1..n |-> IF job.dest_skip + i <= Len(dst)
                    THEN dst[job.dest_skip + i] ELSE -2]

Done == pc = "exit" /\ exitCode = 0
Failed == pc = "exit" /\ exitCode = 1

\* C1: a copy with the default (unbounded) count in which no open, seek,
\* read or write fails and no write is short cannot stop before it is done,
\* ends with exit code 0, and then the destination holds, from dest_skip on,
\* the bytes of the source from source_skip on, whatever the block size and
\* however the reads were split.
C1_UnboundedCopyIsExact ==
    (CopyJobRan /\ job.count = U64Max /\ NoIoError) =>
        /\ pc # "exit" => ENABLED Next
        /\ pc = "exit" =>
            /\ exitCode = 0
            /\ BytesWritten = SourceLength
            /\ DstBytes(SourceLength) = SrcBytes(SourceLength)

\* C1 witness: such a copy ended after a read that returned less than was
\* asked for, with both skips in use and an old destination overwritten.
C1_Witness ==
    /\ Done /\ CopyJobRan /\ job.count = U64Max /\ NoIoError
    /\ SourceLength >= 2
    /\ job.source_skip > 0 /\ job.dest_skip > 0
    /\ \E i \in 1..Len(ops) :
        ops[i].op = "read" /\ ops[i].r > 0 /\ ops[i].r < ops[i].n
    /\ dst # SrcBytes(SourceLength)

\* C2: the bytes read never exceed count, every read asks for at most
\* min(block_size, count - bytes read so far), and a copy with count <= the
\* source's length that meets no error ends with exit code 0 having moved
\* exactly count bytes.
C2_CountIsRespected ==
    CopyJobRan =>
        /\ BytesRead <= job.count
        /\ \A i \in 1..Len(ops) :
            ops[i].op = "read" =>
                /\ ops[i].n <= job.block_size
                /\ ops[i].n <= job.count - SumOf(SubSeq(ops, 1, i - 1), "read")
                /\ ops[i].n <= ops[i].rem
        /\ (NoIoError /\ job.count <= SourceLength) =>
            /\ pc # "exit" => ENABLED Next
            /\ pc = "exit" =>
                /\ exitCode = 0
                /\ BytesRead = job.count
                /\ BytesWritten = job.count
                /\ DstBytes(job.count) = SrcBytes(job.count)

\* C2 witness: a copy of fewer bytes than the source holds ended, its last
\* read cut down to the budget left.
C2_Witness ==
    /\ Done /\ CopyJobRan /\ NoIoError
    /\ job.count >= 2 /\ job.count < SourceLength
    /\ \E i \in 1..Len(ops) :
        ops[i].op = "read" /\ ops[i].n < job.block_size /\ ops[i].n = ops[i].rem

\* C3: a write that reports a count other than the count read is the last
\* operation of the run, which has ended with exit code 1.
C3_ShortWriteIsFatal ==
    \A i \in 1..Len(ops) :
        (ops[i].op = "write" /\ ops[i].r # -1 /\ ops[i].r # ops[i].n) =>
            /\ i = Len(ops)
            /\ Failed

\* C3 witness: a write of two bytes wrote one, with budget and source left.
C3_Witness ==
    /\ Failed
    /\ Len(ops) > 0
    /\ ops[Len(ops)].op = "write"
    /\ ops[Len(ops)].r = 1 /\ ops[Len(ops)].n = 2
    /\ remaining_bytes > 0
    /\ Avail(src, srcPos) > 0

\* C4: a read that returns zero bytes is the last operation of the run,
\* which has ended with exit code 0, whatever budget is left.
C4_ZeroReadEndsLoop ==
    \A i \in 1..Len(ops) :
        (ops[i].op = "read" /\ ops[i].r = 0) =>
            /\ i = Len(ops)
            /\ Done

\* C4 witness: a copy with a finite count ended on a zero-byte read with
\* budget left, after it had copied something.
C4_Witness ==
    /\ Done
    /\ Len(ops) > 0
    /\ ops[Len(ops)].op = "read" /\ ops[Len(ops)].r = 0
    /\ job.count # U64Max
    /\ remaining_bytes > 0
    /\ BytesWritten > 0

(***************************************************************************)
(* Exit codes.                                                             *)
(***************************************************************************)
\* main.rs lines 102-149, read off the command line alone
DdArgsInvalid ==
    \/ ~argv.parse_ok
    \/ argv.nfree # 2
    \/ ~argv.s.valid \/ ~argv.S.valid \/ ~argv.c.valid \/ ~argv.b.valid
    \/ (argv.b.present /\ argv.b.val < 1)

\* a walk of a namespace directory failed
EnumerationFailed ==
    \E i \in 1..Len(kops) :
        kops[i].status \notin {"STATUS_SUCCESS", "STATUS_NO_MORE_ENTRIES"}

\* a disk could not be opened or asked for its size
DiskQueryFailed == failure \in {"open_disk", "disk_size"}

\* the command of this run failed somewhere
CommandFailed ==
    IF argv.nargs = 1 THEN TRUE
    ELSE IF argv.cmd = "--help" THEN FALSE
    ELSE IF argv.cmd = "dd" THEN DdArgsInvalid \/ ~NoIoError
    ELSE IF argv.cmd = "list"
        THEN argv.nargs # 2 \/ EnumerationFailed \/ DiskQueryFailed
    ELSE TRUE

CommandFailedFatally ==
    IF argv.nargs = 1 THEN TRUE
    ELSE IF argv.cmd = "--help" THEN FALSE
    ELSE IF argv.cmd = "dd" THEN DdArgsInvalid \/ ~NoIoError
    ELSE IF argv.cmd = "list" THEN argv.nargs # 2 \/ EnumerationFailed
    ELSE TRUE

EncodedByteLength(text) == Len(EncodeUtf16(Unpack(text))) * SizeOfU16

\* C6 as stated: new_from_string fails with the size overflow exactly for
\* the texts whose UTF-16 encoding is longer than 65535 bytes, whatever the
\* capacity of the vector, and a holder that was built decodes to the text
\* it was built from.
C6_Original ==
    us.pc \notin {"none", "start"} =>
        /\ us.pc = "overflow" <=> EncodedByteLength(us.text) > U16Max
        /\ us.pc # "panic"
        /\ us.pc = "decoded" => (us.decoded.ok /\ us.decoded.val = us.text)

(***************************************************************************)
(* Properties of the listing.                                              *)
(***************************************************************************)
\* C7 as stated: get_disk_size returns a size only when DeviceIoControl
\* reported as many bytes returned as GET_LENGTH_INFORMATION has.
C7_Original ==
    (lastQuery.made /\ lastQuery.ret.ok) =>
        lastQuery.bytes_returned = LengthInfoSize

\* index in kops of the NtOpenDirectoryObject call of the walk in `walk`
LastOpen ==
    CHOOSE i \in 1..Len(kops) :
        /\ kops[i].call = "open"
        /\ \A j \in (i + 1)..Len(kops) : kops[j].call # "open"

\* the NtClose calls made since the walk in `walk` opened its directory
ClosesOfWalk ==
    Cardinality({j \in LastOpen..Len(kops) : kops[j].call = "close"})

\* enumerate_object_path has returned from the walk in `walk`
WalkReturned == walk.caller # "none" /\ pc \notin {"enum_open", "enum_query"}

\* C8: a walk that opened its directory has closed the handle exactly once
\* by the time it returns, by exhaustion or by a failed query; a walk whose
\* open failed closes nothing; no handle is closed twice; every query and
\* every close is made on a handle that is open.
C8_HandleReleasedOnce ==
    /\ walk.closes <= 1
    /\ \A i \in 1..Len(kops) :
        kops[i].call \in {"query", "close"} => kops[i].handle = "open"
    /\ WalkReturned =>
        /\ ClosesOfWalk = walk.closes
        /\ IF kops[LastOpen].status = "STATUS_SUCCESS"
           THEN walk.closes = 1 /\ walk.handle = "closed"
                /\ kops[Len(kops)].call = "close"
           ELSE walk.closes = 0 /\ walk.handle = "none"
    /\ (walk.caller # "none" /\ pc = "enum_query") =>
        walk.closes = 0 /\ walk.handle = "open"

\* C8 witness: a walk returned after a query failed behind an entry it had
\* been shown, and its handle is closed.
C8_Witness ==
    /\ WalkReturned
    /\ ~walk.ok
    /\ walk.context >= 1
    /\ walk.closes = 1
    /\ kops[Len(kops) - 1].status = "STATUS_ACCESS_DENIED"

\* C9: when DeviceIoControl succeeds, a negative length makes get_disk_size
\* return the InvalidData error, which is not the error of a failed call,
\* and a length >= 0 is returned as it is.
C9_NegativeLengthIsError ==
    lastQuery.made =>
        IF lastQuery.result = 0
        THEN ~lastQuery.ret.ok /\ lastQuery.ret.err = "last_os_error"
        ELSE IF lastQuery.length < 0
        THEN ~lastQuery.ret.ok /\ lastQuery.ret.err = "InvalidData"
             /\ ~lastLine.has_size
        ELSE lastQuery.ret.ok /\ lastQuery.ret.val = lastQuery.length
             /\ lastLine.has_size /\ lastLine.size = lastQuery.length

\* C9 witness: the driver reported a whole structure holding the length -1.
C9_Witness ==
    /\ lastQuery.made
    /\ lastQuery.result # 0
    /\ lastQuery.bytes_returned = LengthInfoSize
    /\ lastQuery.length = -1
    /\ lastQuery.ret.err = "InvalidData"

\* the kernel call kops[i] failed
KopFailed(i) ==
    kops[i].status \notin {"STATUS_SUCCESS", "STATUS_NO_MORE_ENTRIES"}

\* C10: once a walk of \Device or of a device's directory has failed, no
\* directory is opened or queried any more, get_windows_disks hands no path
\* to its caller, nothing is printed, and the run ends with exit code 1.
C10_WalkFailureDiscardsAll ==
    \A i \in 1..Len(kops) :
        KopFailed(i) =>
            /\ \A j \in (i + 1)..Len(kops) : kops[j].call = "close"
            /\ pc \in {"gwd_after_root", "gwd_after_dev", "exit"}
            /\ pc = "exit" => exitCode = 1
            /\ disks = <<>>
            /\ printed = 0

\* C10 witness: the walk of the second device failed after the first device
\* had yielded a partition path.
C10_Witness ==
    /\ Failed
    /\ Len(ret) >= 1
    /\ Len(devs) >= 2
    /\ devIdx = 2
    /\ \E i \in 1..Len(kops) : KopFailed(i) /\ kops[i].path # DevicePath


(***************************************************************************)
(* The listing, read off the log of kernel calls                           *)
(***************************************************************************)
\* the NtOpenDirectoryObject calls so far, as indexes of kops in order
Opens == SelectSeq([i \in 1..Len(kops) |-> i],
                   LAMBDA i : kops[i].call = "open")

\* the index of kops at which the walk begun by the open kops[i] ends
WalkEnd(i) ==
    LET later == {j \in (i + 1)..Len(kops) : kops[j].call = "open"}
    IN IF later = {} THEN Len(kops)
       ELSE (CHOOSE j \in later : \A k \in later : j <= k) - 1

\* the buffers the kernel filled during the walk begun by the open kops[i]
WalkInfos(i) ==
    LET calls == SubSeq(kops, i + 1, WalkEnd(i))
        shown == SelectSeq(calls, IsEntry)
    IN [k \in 1..Len(shown) |-> shown[k].info]

RECURSIVE Flatten(_)
Flatten(seqs) ==
    IF seqs = <<>> THEN <<>> ELSE Head(seqs) \o Flatten(Tail(seqs))

\* the entries enumerate_object_path hands over for the walk begun by kops[i]
WalkEntries(i) ==
    LET infos == WalkInfos(i)
    IN Flatten([k \in 1..Len(infos) |-> DecodeEntry(infos[k])])

IsHarddiskDirectory(e) ==
    e.type_name = Directory /\ StartsWith(e.name, Harddisk)
IsPartitionEntry(e) == StartsWith(e.name, Partition)

\* the devices of \Device to walk, in the order the kernel showed them
RootRetained ==
    IF Opens = <<>> THEN <<>>
    ELSE SelectSeq(WalkEntries(Opens[1]), IsHarddiskDirectory)

\* the paths owed for the device dev, whose walk began with the open kops[i]
PathsOfDevice(dev, i) ==
    LET parts == SelectSeq(WalkEntries(i), IsPartitionEntry)
    IN [n \in 1..Len(parts) |->
            GlobalRootPrefix \o dev.name \o Backslash \o parts[n].name]

\* the paths owed for the devices retained, the k-th of which is walked by
\* the (k+1)-th walk
ExpectedDisks ==
    LET opens == Opens
        retained == RootRetained
    IN Flatten([k \in 1..Len(retained) |->
                    PathsOfDevice(retained[k], opens[k + 1])])

\* get_windows_disks has returned Ok to do_list_windows
DisksListed ==
    argv.cmd = "list" /\ (pc = "list_disk" \/ (pc = "exit" /\ exitCode = 0))

\* get_windows_disks has just returned Ok: no disk has been looked at yet
DisksHandedOver == pc = "list_disk" /\ diskIdx = 1

\* C11: the first directory walked is \Device; the k-th walk after it is of
\* \Device\<name> for the k-th root entry whose type is "Directory" and
\* whose name starts with "Harddisk", and no other directory is walked; the
\* list handed to do_list_windows holds, for each of these devices in root
\* order and for each of its entries whose name starts with "Partition" in
\* the order of that walk, the one path \\?\GLOBALROOT\Device\<device>\<entry>,
\* and nothing else; the disks printed are the paths of that list, in order.
C11_ListingIsFilteredInOrder ==
    /\ (kops # <<>> /\ kops[Len(kops)].call = "open") =>
        LET opens == Opens
            retained == RootRetained
            n == Len(opens)
        IN IF n = 1 THEN kops[Len(kops)].path = DevicePath
           ELSE /\ n <= 1 + Len(retained)
                /\ kops[Len(kops)].path = DevicePrefix \o retained[n - 1].name
    /\ DisksHandedOver =>
        /\ Len(Opens) = 1 + Len(RootRetained)
        /\ disks = ExpectedDisks
    /\ (DisksListed /\ printed >= 1) =>
        (printed <= Len(disks) /\ lastLine.disk = disks[printed])

\* C11 witness: two different partition paths are listed in a run whose root
\* walk also showed an entry that is not a hard disk directory.
C11_Witness ==
    /\ DisksListed
    /\ Len(disks) = 2
    /\ disks[1] # disks[2]
    /\ Len(WalkInfos(Opens[1])) > Len(RootRetained)


\* C12: a copy whose source holds, from source_skip on, fewer bytes than
\* count (finite or the default), and that meets no Err and no short write,
\* cannot stop before it is done; it ends with exit code 0 and no failure on
\* record, its last operation a read that returned zero bytes; it has then
\* read and written every byte the source held, the destination holds them
\* from dest_skip on, and the budget left is count minus that length, which
\* is more than zero.
C12_ShortSourceIsNotAFailure ==
    (CopyJobRan /\ NoIoError /\ SourceLength < job.count) =>
        /\ pc # "exit" => ENABLED Next
        /\ pc = "exit" =>
            /\ exitCode = 0
            /\ failure = "none"
            /\ ops[Len(ops)].op = "read" /\ ops[Len(ops)].r = 0
            /\ BytesRead = SourceLength
            /\ BytesWritten = SourceLength
            /\ DstBytes(SourceLength) = SrcBytes(SourceLength)
            /\ remaining_bytes = job.count - SourceLength
            /\ remaining_bytes > 0

\* C12 witness: a copy with a finite count larger than what the source held
\* behind a nonzero source_skip ended, having copied at least two bytes in
\* more than one read.
C12_Witness ==
    /\ Done /\ CopyJobRan /\ NoIoError
    /\ job.count # U64Max
    /\ job.source_skip > 0
    /\ SourceLength >= 2 /\ SourceLength < job.count
    /\ Len(SelectSeq(ops, LAMBDA o : o.op = "read")) >= 3


\* the copy's arguments were accepted, the destination path names no file
\* and -C was not given
MissingDestNoCreate ==
    CopyJobRan /\ ~dstExists /\ ~job.allow_create_dest

\* what holds while the destination is missing and may not be created
MissingDestStaysMissing ==
    MissingDestNoCreate =>
        /\ dst = <<>>
        /\ \A i \in 1..Len(ops) : ops[i].op \notin {"read", "write", "seek_dest"}
        /\ pc \in {"open_source", "seek_source", "open_dest", "exit"}
        /\ pc = "exit" =>
            /\ exitCode = 1
            /\ failure \in {"open_source", "seek_source", "open_dest"}
        /\ \A i \in 1..Len(ops) :
            ops[i].op = "open_dest" =>
                /\ ops[i].r = -1
                /\ i = Len(ops)
                /\ Failed
                /\ failure = "open_dest"
        /\ pc = "open_dest" => ENABLED DdOpenDest

\* C13: a copy whose destination does not exist and that may not create it
\* never gets past the opening of the destination: the run cannot end with
\* exit code 0, no destination file comes to exist, no read and no write is
\* ever issued, and once the source is open (and sought, if source_skip is
\* not zero) the next operation is the opening of the destination, which
\* fails and ends the run with exit code 1.
C13_MissingDestIsNotCreated ==
    /\ []MissingDestStaysMissing
    /\ [][MissingDestNoCreate => (~dstExists' /\ dst' = <<>>)]_vars

\* C13 witness: the source was opened and sought, the opening of the missing
\* destination failed, and the run is over.
C13_Witness ==
    /\ MissingDestNoCreate
    /\ Failed
    /\ failure = "open_dest"
    /\ job.truncate_dest
    /\ Len(src) > 0
    /\ Len(ops) = 3


(***************************************************************************)
(* The walk of one directory                                               *)
(***************************************************************************)
\* the text a UNICODE_STRING of the kernel stands for, if it is UTF-16
TextOf(unistr) == FromUtf16(SubSeq(unistr.Buffer, 1, unistr.Length \div 2))

Decodes(info) == TextOf(info.Name).ok /\ TextOf(info.TypeName).ok

\* the entries among infos that decode, in the order of infos
DecodedOf(infos) ==
    LET texts == [k \in 1..Len(infos) |->
                    [name |-> TextOf(infos[k].Name),
                     type_name |-> TextOf(infos[k].TypeName)]]
        good == SelectSeq(texts, LAMBDA x : x.name.ok /\ x.type_name.ok)
    IN [k \in 1..Len(good) |->
            [name |-> good[k].name.val, type_name |-> good[k].type_name.val]]

\* the NtQueryDirectoryObject calls of the walk in `walk`, as indexes of kops
QueriesOfWalk ==
    SelectSeq([k \in 1..(Len(kops) - LastOpen) |-> LastOpen + k],
              LAMBDA j : kops[j].call = "query")

\* enumerate_object_path is returning from the walk in `walk`
WalkReturns == pc \in {"gwd_after_root", "gwd_after_dev"}

\* C14: every query of a walk asks for a single entry without restarting
\* the scan and passes the cursor the queries before it left behind (0 at
\* first, one more after each entry shown).  A query that shows an entry,
\* decodable or not, is followed by another query.  The walk returns right
\* after the first query whose status is not success: on the no-more-entries
\* status it returns Ok with the entries shown whose name and type both
\* decoded, in the order shown, the others left out; on any other status it
\* returns Err and hands over no entry.
C14_WalkOutcome ==
    (pc \in {"enum_query", "gwd_after_root", "gwd_after_dev"}) =>
        LET qs == QueriesOfWalk
            infos == WalkInfos(LastOpen)
        IN /\ \A n \in 1..Len(qs) :
                /\ kops[qs[n]].return_single_entry
                /\ ~kops[qs[n]].restart_scan
                /\ kops[qs[n]].context = n - 1
                /\ kops[qs[n]].handle = "open"
                /\ n < Len(qs) => kops[qs[n]].status = "STATUS_SUCCESS"
           /\ pc = "enum_query" =>
                /\ kops[LastOpen].status = "STATUS_SUCCESS"
                /\ Len(infos) = Len(qs)
                /\ walk.ret = DecodedOf(infos)
                /\ ENABLED EnumQuery
           /\ (WalkReturns /\ kops[LastOpen].status = "STATUS_SUCCESS") =>
                /\ Len(qs) = Len(infos) + 1
                /\ IF kops[qs[Len(qs)]].status = "STATUS_NO_MORE_ENTRIES"
                   THEN walk.ok /\ walk.ret = DecodedOf(infos)
                   ELSE ~walk.ok /\ walk.ret = <<>>
           /\ (WalkReturns /\ kops[LastOpen].status # "STATUS_SUCCESS") =>
                (qs = <<>> /\ ~walk.ok /\ walk.ret = <<>>)

\* C14 witness: a walk returned Ok after it was shown an entry whose name
\* does not decode and, behind it, an entry that does.
C14_Witness ==
    /\ WalkReturned /\ walk.ok
    /\ Len(WalkInfos(LastOpen)) >= 2
    /\ ~Decodes(WalkInfos(LastOpen)[1])
    /\ Decodes(WalkInfos(LastOpen)[2])
    /\ Len(walk.ret) = Len(WalkInfos(LastOpen)) - 1


(***************************************************************************)
(* The order of a copy's steps                                             *)
(***************************************************************************)
OpNames == [i \in 1..Len(ops) |-> ops[i].op]

IsPrefix(s, t) == Len(s) <= Len(t) /\ SubSeq(t, 1, Len(s)) = s

IsSeek(i) == ops[i].op \in {"seek_source", "seek_dest"}
IsTransfer(i) == ops[i].op \in {"read", "write"}

\* what C15 says of seeks apart from the place of the destination's opening:
\* a seek goes to the stream's skip, counted from the start, and only when
\* the skip is not zero; each stream is opened and sought at most once; a
\* failed seek is the last operation of a run that ends with exit code 1
\* and has moved nothing; a transfer comes after the opening of both streams
\* and after the seek of every stream whose skip is not zero.
SeeksAreSound ==
    /\ \A i \in 1..Len(ops) :
        /\ ops[i].op = "seek_source" => ops[i].n = job.source_skip /\ ops[i].n > 0
        /\ ops[i].op = "seek_dest" => ops[i].n = job.dest_skip /\ ops[i].n > 0
        /\ (IsSeek(i) /\ ops[i].r = -1) =>
                /\ i = Len(ops)
                /\ Failed
                /\ \A j \in 1..Len(ops) : ~IsTransfer(j)
                /\ BytesWritten = 0
        /\ \A j \in 1..Len(ops) :
                (j # i /\ ~IsTransfer(i)) => ops[j].op # ops[i].op
        /\ IsTransfer(i) =>
                /\ \E j \in 1..(i - 1) : ops[j].op = "open_source" /\ ops[j].r = 0
                /\ \E j \in 1..(i - 1) : ops[j].op = "open_dest" /\ ops[j].r = 0
                /\ job.source_skip > 0 =>
                    \E j \in 1..(i - 1) : ops[j].op = "seek_source" /\ ops[j].r = 0
                /\ job.dest_skip > 0 =>
                    \E j \in 1..(i - 1) : ops[j].op = "seek_dest" /\ ops[j].r = 0

\* C15 as stated: the destination is opened before any seek on either
\* stream, and the seeks are as above.
C15_Original ==
    CopyJobRan =>
        /\ SeeksAreSound
        /\ \A i \in 1..Len(ops) :
            IsSeek(i) => \E j \in 1..(i - 1) : ops[j].op = "open_dest"

\* the operations before the first transfer, in the order of main.rs
SetupOrder ==
    <<"open_source">>
    \o (IF job.source_skip > 0 THEN <<"seek_source">> ELSE <<>>)
    \o <<"open_dest">>
    \o (IF job.dest_skip > 0 THEN <<"seek_dest">> ELSE <<>>)

\* C15, amended: a copy opens the source, seeks it if source_skip is not
\* zero, then opens the destination, seeks it if dest_skip is not zero, and
\* only then transfers; so the source is sought before the destination is
\* opened, and a failed opening or seek of the source leaves the destination
\* unopened.  The seeks are as above.
C15_StepOrder ==
    CopyJobRan =>
        /\ SeeksAreSound
        /\ IF Len(ops) <= Len(SetupOrder)
           THEN IsPrefix(OpNames, SetupOrder)
           ELSE /\ IsPrefix(SetupOrder, OpNames)
                /\ \A i \in (Len(SetupOrder) + 1)..Len(ops) : IsTransfer(i)
        /\ \A i \in 1..Len(ops) :
            (~IsTransfer(i) /\ ops[i].r = -1) => (i = Len(ops) /\ Failed)
        /\ \A i \in 1..Len(ops) :
            ops[i].op = "seek_source" =>
                \A j \in 1..i : ops[j].op # "open_dest"

\* C15 witness: with both skips in use the source was sought, then the
\* destination opened and sought, and a byte was read.
C15_Witness ==
    /\ CopyJobRan
    /\ job.source_skip > 0 /\ job.dest_skip > 0
    /\ Len(ops) = 5
    /\ ops[2].op = "seek_source" /\ ops[3].op = "open_dest"
    /\ ops[4].op = "seek_dest" /\ ops[4].r = 0
    /\ ops[5].op = "read" /\ ops[5].r > 0


\* the copy loop has been entered
InCopyLoop ==
    CopyJobRan /\ (pc \in {"loop", "write"}
                   \/ (pc = "exit" /\ \E i \in 1..Len(ops) : IsTransfer(i)))

\* C16: from the moment the loop is entered, remaining_bytes is count minus
\* the bytes read so far, at every read and at every write (so a write and
\* the count it reports leave it alone), and it is never negative; a read
\* asks for no more than the budget and returns no more than it asked for.
C16_BudgetTracksReads ==
    InCopyLoop =>
        /\ remaining_bytes = job.count - BytesRead
        /\ remaining_bytes >= 0
        /\ \A i \in 1..Len(ops) :
            IsTransfer(i) =>
                /\ ops[i].rem = job.count - SumOf(SubSeq(ops, 1, i - 1), "read")
                /\ ops[i].rem >= 0
                /\ ops[i].op = "read" =>
                    /\ ops[i].r <= ops[i].n
                    /\ ops[i].n <= ops[i].rem
                /\ (ops[i].op = "write" /\ i < Len(ops)) =>
                    ops[i + 1].rem = ops[i].rem

\* C16 witness: after a read that returned less than was asked for and a
\* full write of it, a second read has been made and budget is left.
C16_Witness ==
    /\ InCopyLoop /\ pc = "write"
    /\ job.count # U64Max
    /\ remaining_bytes > 0
    /\ \E i \in 1..Len(ops) :
        /\ ops[i].op = "read" /\ ops[i].r > 0 /\ ops[i].r < ops[i].n
        /\ i + 2 = Len(ops)
        /\ ops[i + 1].op = "write" /\ ops[i + 1].r = ops[i].r
        /\ ops[i + 2].op = "read" /\ ops[i + 2].r > 0


Reads == SelectSeq(ops, LAMBDA o : o.op = "read")
Writes == SelectSeq(ops, LAMBDA o : o.op = "write")

\* no read returned less than it asked for while the source had that much
ReadsAreFull ==
    \A i \in 1..Len(ops) :
        ops[i].op = "read" =>
            ops[i].r = Min(ops[i].n,
                           SourceLength - SumOf(SubSeq(ops, 1, i - 1), "read"))

\* a copy of a whole number of blocks with the default count, reads full,
\* nothing failing
WholeBlocksCopy ==
    /\ CopyJobRan /\ job.count = U64Max /\ NoIoError /\ ReadsAreFull
    /\ SourceLength % job.block_size = 0

Blocks == SourceLength \div job.block_size

\* C17 as stated: such a copy ends with an identical destination after
\* exactly k reads and k writes.
C17_Original ==
    (WholeBlocksCopy /\ Done) =>
        /\ DstBytes(SourceLength) = SrcBytes(SourceLength)
        /\ Len(Reads) = Blocks
        /\ Len(Writes) = Blocks

\* C17, amended: such a copy makes k iterations that each read a whole block
\* and write it, then one more iteration whose read returns zero bytes and
\* that writes nothing: k + 1 reads and k writes, and the destination holds
\* the source's bytes.
C17_WholeBlocks ==
    WholeBlocksCopy =>
        /\ Len(Reads) <= Blocks + 1
        /\ Len(Writes) <= Blocks
        /\ \A i \in 1..Len(Writes) :
            Writes[i].n = job.block_size /\ Writes[i].r = job.block_size
        /\ \A i \in 1..Len(Reads) :
            /\ Reads[i].n = job.block_size
            /\ Reads[i].r = IF i <= Blocks THEN job.block_size ELSE 0
        /\ pc = "exit" =>
            /\ exitCode = 0
            /\ Len(Reads) = Blocks + 1
            /\ Len(Writes) = Blocks
            /\ ops[Len(ops)].op = "read" /\ ops[Len(ops)].r = 0
            /\ DstBytes(SourceLength) = SrcBytes(SourceLength)

\* C17 witness: a source of three blocks was copied.
C17_Witness ==
    /\ WholeBlocksCopy /\ Done
    /\ Blocks = 3
    /\ Len(Writes) = 3


(***************************************************************************)
(* The progress line                                                       *)
(***************************************************************************)
\* the run ended in a panic of print! or println!
StdoutPanic == pc = "exit" /\ failure = "panic_stdout"

\* C18 as stated: a progress value is emitted only once the read and the
\* write of its iteration are both done, so there are never more progress
\* values than finished writes; and whatever becomes of stdout, the copy
\* ends with exit code 0 or 1, never in a panic.
C18_Original ==
    CopyJobRan =>
        /\ Len(progress) <= Len(SelectSeq(ops, LAMBDA o : o.op = "write" /\ o.r # -1))
        /\ pc = "exit" => exitCode \in {0, 1}
        /\ ~StdoutPanic


\* C19: in every state of a copy, whether it is running, done, failed or
\* has panicked, the destination holds from dest_skip on, over the length
\* written so far, the bytes of the source from source_skip on; the bytes
\* written are at most the bytes read, which are at most count and at most
\* what the source holds; and whenever the loop test is about to be made,
\* as many bytes have been written as read.
C19_WrittenIsPrefixOfSource ==
    CopyJobRan =>
        /\ BytesWritten <= BytesRead
        /\ BytesRead <= job.count
        /\ BytesRead <= SourceLength
        /\ DstBytes(BytesWritten) = SrcBytes(BytesWritten)
        /\ pc = "loop" => BytesWritten = BytesRead

\* C19 witness: after one block was copied in full, the write of the next
\* one was short and the run failed with fewer bytes written than read.
C19_Witness ==
    /\ CopyJobRan /\ Failed
    /\ failure = "short_write"
    /\ Len(Writes) = 2
    /\ BytesWritten >= 2
    /\ BytesWritten < BytesRead
    /\ job.dest_skip > 0


(***************************************************************************)
(* Termination                                                             *)
(***************************************************************************)
\* the runs of the copy command
InitDd == Init /\ argv.cmd = "dd"

NextDd ==
    \/ DoMain
    \/ DdParseArgs
    \/ DdOpenSource
    \/ DdSeekSource
    \/ DdOpenDest
    \/ DdSeekDest
    \/ DdRead
    \/ DdWrite
    \/ DdLoopEnd

\* The program is one thread whose every step is a statement or a system
\* call that returns: a step that can be taken is taken.
SpecLive == InitDd /\ [][NextDd]_vars /\ WF_vars(NextDd)

\* the iterations of the copy loop so far: each begins with a read
Iterations == Len(Reads)

\* what bounds the loop: an iteration that does not end the run has read at
\* least one byte, so the loop has made at most count iterations, and at
\* most one more than the source has bytes
LoopIsBounded ==
    CopyJobRan =>
        /\ \A i \in 1..Len(ops) :
            (ops[i].op = "read" /\ i < Len(ops)) => ops[i].r >= 1
        /\ Iterations <= job.count
        /\ Iterations <= SourceLength + 1
        /\ (pc = "loop" /\ remaining_bytes > 0) => ENABLED DdRead
        /\ pc = "write" => ENABLED DdWrite

\* an iteration that goes on to its write has lowered the budget by 1 or more
IterationLowersBudget ==
    (pc = "loop" /\ pc' = "write") =>
        /\ remaining_bytes' <= remaining_bytes - 1
        /\ remaining_bytes' >= 0

\* C20: the copy loop terminates.  An iteration that does not end the run
\* lowers remaining_bytes by at least 1 and never below 0, so there are at
\* most count iterations; there are at most as many as the source has bytes
\* plus one, however short the reads and also with the default count; and
\* every run of the copy command comes to its exit.
C20_CopyTerminates ==
    /\ []LoopIsBounded
    /\ [][IterationLowersBudget]_vars
    /\ (argv.cmd = "dd") ~> (pc = "exit")

\* C20 witness: a copy with the default count came to its end after reading
\* a source of three bytes one byte at a time with a block size of 2.
C20_Witness ==
    /\ CopyJobRan /\ Done
    /\ job.count = U64Max
    /\ job.block_size = 2
    /\ Iterations = 4
    /\ \A i \in 1..3 : Reads[i].r = 1 /\ Reads[i].n = 2


(***************************************************************************)
(* Failures before the destination is opened                               *)
(***************************************************************************)
\* the opening of the source returned Err (main.rs lines 168-173)
SourceOpenFailed ==
    /\ argv.cmd = "dd"
    /\ Len(ops) >= 1
    /\ ops[1].op = "open_source"
    /\ ops[1].r = -1

\* the destination is as it was before the run: never opened, sought or
\* written, a file that existed holds what it held and one that did not
\* exist still does not
DestUntouched ==
    /\ \A i \in 1..Len(ops) :
        ops[i].op \notin {"open_dest", "seek_dest", "write"}
    /\ dst = (IF dstExists THEN OldDest ELSE <<>>)
    /\ dstPos = 0

\* what holds of a copy whose arguments are invalid, and of one whose source
\* could not be opened
EarlyFailureLeavesDest ==
    argv.cmd = "dd" =>
        /\ DdArgsInvalid =>
            /\ pc \in {"main", "dd_args", "exit"}
            /\ pc # "exit" => ENABLED Next
            /\ pc = "exit" => (exitCode = 1 /\ failure = "args")
            /\ job = NoJob
            /\ ops = <<>>
            /\ DestUntouched
        /\ SourceOpenFailed =>
            /\ Failed
            /\ failure = "open_source"
            /\ Len(ops) = 1
            /\ DestUntouched
        /\ pc = "open_source" => (~DdArgsInvalid /\ ops = <<>> /\ DestUntouched)

\* no step of such a run creates, truncates or moves in the destination
EarlyFailureStep ==
    ((argv.cmd = "dd" /\ DdArgsInvalid) \/ SourceOpenFailed') =>
        UNCHANGED <<dstExists, dst, dstPos>>

\* C21: a copy whose arguments are invalid (the options do not parse, there
\* are not exactly two paths, a skip, the count or the block size is not a
\* number, or the block size is below 1) and a copy whose source cannot be
\* opened end with exit code 1 without ever opening the destination: no
\* step of the run creates or truncates it, also when -C or -t is given.
C21_EarlyFailureLeavesDest ==
    /\ []EarlyFailureLeavesDest
    /\ [][EarlyFailureStep]_vars

\* C21 witness: with -C and -t given, the opening of the source failed and
\* the run ended with exit code 1; the destination that existed still holds
\* its two bytes.
C21_Witness ==
    /\ SourceOpenFailed
    /\ Failed
    /\ job.allow_create_dest /\ job.truncate_dest
    /\ dstExists /\ dst = OldDest /\ Len(dst) = 2
    /\ Len(src) > 0

=============================================================================
